---- MODULE Spec2Model ----
(***************************************************************************)
(* Streaming relay and conversation-memory subsystem of the DSPy streaming *)
(* proxy (run.py, shoggoth_utils.py, shoggoth_dspy.py).                    *)
(*                                                                         *)
(* Text is a sequence of Unicode code points, bytes are a sequence of      *)
(* integers 0..255.  Timestamps of log records are left out.               *)
(***************************************************************************)
EXTENDS Integers, Sequences, FiniteSets, TLC

(***************************************************************************)
(* Bounds of the model                                                     *)
(***************************************************************************)
MaxRequests == 2
MaxChunks == 2
MaxOver == 2
MaxMessages == 3

Requests == 1..MaxRequests

(***************************************************************************)
(* Text constants of the program                                           *)
(***************************************************************************)
\* "[No response from upstream]"
NoResponseFromUpstream ==
    <<91, 78, 111, 32, 114, 101, 115, 112, 111, 110, 115, 101, 32, 102, 114,
      111, 109, 32, 117, 112, 115, 116, 114, 101, 97, 109, 93>>

\* "[Error: No response received]"
ErrorNoResponseReceived ==
    <<91, 69, 114, 114, 111, 114, 58, 32, 78, 111, 32, 114, 101, 115, 112,
      111, 110, 115, 101, 32, 114, 101, 99, 101, 105, 118, 101, 100, 93>>

\* "Error generating response: "
ErrorGeneratingResponse ==
    <<69, 114, 114, 111, 114, 32, 103, 101, 110, 101, 114, 97, 116, 105, 110,
      103, 32, 114, 101, 115, 112, 111, 110, 115, 101, 58, 32>>

\* the replacement marker U+FFFD that decode(errors="replace") substitutes
ReplacementChar == 65533

(***************************************************************************)
(* bytes.decode("utf-8", errors="replace") on the bytes the model uses:    *)
(* ASCII, two-byte sequences (lead 0xC2..0xDF, continuation 0x80..0xBF),   *)
(* and bytes that start no valid sequence.                                 *)
(***************************************************************************)
IsAscii(b) == b < 128
IsLead2(b) == b >= 194 /\ b <= 223
IsCont(b) == b >= 128 /\ b <= 191

RECURSIVE decode(_)
decode(chunk) ==
    IF chunk = <<>> THEN <<>>
    ELSE LET b == Head(chunk) IN
         IF IsAscii(b) THEN <<b>> \o decode(Tail(chunk))
         ELSE IF IsLead2(b) /\ Len(chunk) >= 2 /\ IsCont(chunk[2])
              THEN <<(b - 192) * 64 + (chunk[2] - 128)>>
                       \o decode(Tail(Tail(chunk)))
              ELSE <<ReplacementChar>> \o decode(Tail(chunk))

\* str.strip() leaves nothing: every character is whitespace
IsSpace(c) == c \in {9, 10, 11, 12, 13, 28, 29, 30, 31, 32, 133, 160}
StripIsEmpty(s) == \A i \in 1..Len(s) : IsSpace(s[i])

(***************************************************************************)
(* ConversationExample and its (de)serialisation                           *)
(***************************************************************************)
ConversationExample(messages, response) ==
    [cls |-> "ConversationExample", messages |-> messages, response |-> response]

to_dict(ex) == [messages |-> ex.messages, response |-> ex.response]

\* from_dict raises KeyError when a key is missing
from_dict_raises(data) ==
    ~({"messages", "response"} \subseteq DOMAIN data)
from_dict(data) == ConversationExample(data.messages, data.response)

(***************************************************************************)
(* json.dumps and json.loads on what the store serialises: a list of       *)
(* dictionaries with "messages" (a list of dictionaries of "role" and      *)
(* "content") and "response".  A JSON text is held by its structure, with  *)
(* every content and response as the characters of its JSON string         *)
(* literal; role names are held as they are.                               *)
(***************************************************************************)
HexDigit(n) == IF n < 10 THEN 48 + n ELSE 87 + n
Hex4(n) ==
    <<HexDigit(n \div 4096), HexDigit((n \div 256) % 16),
      HexDigit((n \div 16) % 16), HexDigit(n % 16)>>

\* \uXXXX
UnicodeEscape(n) == <<92, 117>> \o Hex4(n)

\* json.dumps with ensure_ascii: the escape of one character
EncodeChar(c) ==
    CASE c = 34 -> <<92, 34>>
      [] c = 92 -> <<92, 92>>
      [] c = 10 -> <<92, 110>>
      [] c = 13 -> <<92, 114>>
      [] c = 9 -> <<92, 116>>
      [] c = 8 -> <<92, 98>>
      [] c = 12 -> <<92, 102>>
      [] OTHER ->
           IF c >= 32 /\ c <= 126 THEN <<c>>
           ELSE IF c < 65536 THEN UnicodeEscape(c)
           ELSE UnicodeEscape(55296 + ((c - 65536) \div 1024))
                    \o UnicodeEscape(56320 + ((c - 65536) % 1024))

\* a character that stands for itself in a string literal
IsPlain(c) == c >= 32 /\ c <= 126 /\ c # 34 /\ c # 92

RECURSIVE EncodeChars(_)
EncodeChars(s) ==
    IF \A i \in 1..Len(s) : IsPlain(s[i]) THEN s
    ELSE EncodeChar(Head(s)) \o EncodeChars(Tail(s))

\* the string literal of a text, quotes included
encode_basestring_ascii(s) == <<34>> \o EncodeChars(s) \o <<34>>

HexValue(d) == IF d <= 57 THEN d - 48 ELSE IF d >= 97 THEN d - 87 ELSE d - 55
Hex4Value(t) ==
    HexValue(t[1]) * 4096 + HexValue(t[2]) * 256 + HexValue(t[3]) * 16
        + HexValue(t[4])

\* the character a backslash and one letter stand for
Backslash(e) ==
    CASE e = 98 -> 8 [] e = 102 -> 12 [] e = 110 -> 10 [] e = 114 -> 13
      [] e = 116 -> 9 [] OTHER -> e

IsHighSurrogate(u) == u >= 55296 /\ u <= 56319
IsLowSurrogate(u) == u >= 56320 /\ u <= 57343

\* json.loads: the characters between the quotes of a string literal, with
\* a \uXXXX pair of surrogates joined into one character
RECURSIVE ScanChars(_)
ScanChars(t) ==
    IF \A i \in 1..Len(t) : t[i] # 92 THEN t
    ELSE IF Head(t) # 92 THEN <<Head(t)>> \o ScanChars(Tail(t))
    ELSE IF t[2] # 117
         THEN <<Backslash(t[2])>> \o ScanChars(SubSeq(t, 3, Len(t)))
    ELSE LET uni == Hex4Value(SubSeq(t, 3, 6)) IN
         IF /\ IsHighSurrogate(uni)
            /\ Len(t) >= 12 /\ t[7] = 92 /\ t[8] = 117
            /\ IsLowSurrogate(Hex4Value(SubSeq(t, 9, 12)))
         THEN <<65536 + (uni - 55296) * 1024
                      + (Hex4Value(SubSeq(t, 9, 12)) - 56320)>>
                  \o ScanChars(SubSeq(t, 13, Len(t)))
         ELSE <<uni>> \o ScanChars(SubSeq(t, 7, Len(t)))

\* as a reader that takes the characters between the quotes as they are
scanstring_verbatim(t) == SubSeq(t, 2, Len(t) - 1)

\* the text of a string literal
scanstring(t) == ScanChars(SubSeq(t, 2, Len(t) - 1))

JsonOfMessage(m) ==
    [k \in DOMAIN m |->
        IF k = "content" THEN encode_basestring_ascii(m[k]) ELSE m[k]]
JsonOfDict(d) ==
    [k \in DOMAIN d |->
        IF k = "messages" THEN [i \in 1..Len(d[k]) |-> JsonOfMessage(d[k][i])]
        ELSE encode_basestring_ascii(d[k])]

MessageOfJson(m) ==
    [k \in DOMAIN m |-> IF k = "content" THEN scanstring(m[k]) ELSE m[k]]
DictOfJson(d) ==
    [k \in DOMAIN d |->
        IF k = "messages" THEN [i \in 1..Len(d[k]) |-> MessageOfJson(d[k][i])]
        ELSE scanstring(d[k])]

\* A value of the key-value service: nothing under the key, a JSON text, or
\* a text that is not JSON.
NoValue == [kind |-> "nil", value |-> <<>>]
Garbage == [kind |-> "garbage", value |-> <<>>]
json_dumps(v) == [kind |-> "json", value |-> [i \in 1..Len(v) |-> JsonOfDict(v[i])]]
json_loads_raises(raw) == raw.kind # "json"
json_loads(raw) == [i \in 1..Len(raw.value) |-> DictOfJson(raw.value[i])]

(***************************************************************************)
(* collections.deque(maxlen=1000)                                          *)
(***************************************************************************)
maxlen == 1000

LastN(s, n) == IF Len(s) <= n THEN s ELSE SubSeq(s, Len(s) - n + 1, Len(s))

\* as a list would: every item is kept
DequeFromList_unbounded(l) == l

\* deque(iterable, maxlen): keeps the last maxlen items
DequeFromList(l) == LastN(l, maxlen)

\* as a full buffer that refuses the new item instead of dropping the oldest
DequeAppend_dropsNew(d, x) ==
    IF Len(d) >= maxlen THEN d ELSE Append(d, x)

\* as a store replaced by the writer's own copy: earlier appends are lost
DequeAppend_overwrites(d, x) == <<x>>

\* as a caller that stores the item by two routes: it is added twice
DequeAppend_twice(d, x) == LastN(d \o <<x, x>>, maxlen)

\* deque.append: adds at the tail, drops the head when full
DequeAppend(d, x) ==
    IF Len(d) >= maxlen THEN Append(Tail(d), x) ELSE Append(d, x)

\* as a read that misses the head, removed while the list was being built
ExamplesData_torn(d) == [i \in 1..(Len(d) - 1) |-> to_dict(d[i + 1])]

\* [ex.to_dict() for ex in conversation_examples]
ExamplesData(d) == [i \in 1..Len(d) |-> to_dict(d[i])]

\* [ConversationExample.from_dict(ex) for ex in examples_data]
FromDicts(l) == [i \in 1..Len(l) |-> from_dict(l[i])]

(***************************************************************************)
(* load_redis_conversation_examples: what the value read from the service  *)
(* does to the module global.  rebind = FALSE leaves the global alone      *)
(* (nothing stored, or an exception caught by the function's except).      *)
(***************************************************************************)
\* as a load that fills the store entry by entry and stops at the entry
\* that does not parse
load_redis_conversation_examples_partial(raw) ==
    IF raw.kind = "nil" \/ json_loads_raises(raw)
    THEN [rebind |-> FALSE, deque |-> <<>>]
    ELSE LET l == json_loads(raw)
             n == CHOOSE k \in 0..Len(l) :
                     /\ \A i \in 1..k : ~from_dict_raises(l[i])
                     /\ k < Len(l) => from_dict_raises(l[k + 1])
         IN [rebind |-> TRUE,
             deque |-> DequeFromList(FromDicts(SubSeq(l, 1, n)))]

load_redis_conversation_examples(raw) ==
    IF raw.kind = "nil" THEN [rebind |-> FALSE, deque |-> <<>>]
    ELSE IF json_loads_raises(raw) THEN [rebind |-> FALSE, deque |-> <<>>]
    ELSE IF \E i \in 1..Len(json_loads(raw)) : from_dict_raises(json_loads(raw)[i])
         THEN [rebind |-> FALSE, deque |-> <<>>]
    ELSE [rebind |-> TRUE,
          deque |-> DequeFromList(FromDicts(json_loads(raw)))]

(***************************************************************************)
(* Requests, messages, the History Extractor of run.py                     *)
(***************************************************************************)
Hi == <<72, 105>>
hi == <<104, 105>>

Message(d) == [cls |-> "Message", role |-> d.role, content |-> d.content]

\* messages: List[Message]
Messages(l) == [i \in 1..Len(l) |-> Message(l[i])]

\* ChatCompletionRequest(**raw_body): model and messages are required
ValidationRaises(raw_body) ==
    \/ ~({"model", "messages"} \subseteq DOMAIN raw_body)
    \/ \E i \in 1..Len(raw_body.messages) :
          ~({"role", "content"} \subseteq DOMAIN raw_body.messages[i])

ChatCompletionRequest(raw_body) ==
    [model |-> raw_body.model,
     messages |-> Messages(raw_body.messages),
     stream |-> IF "stream" \in DOMAIN raw_body THEN raw_body.stream ELSE FALSE,
     max_tokens |-> IF "max_tokens" \in DOMAIN raw_body
                    THEN raw_body.max_tokens ELSE 4000]

\* as an extraction that leaves the last message in the history
extract_current_message_and_history_whole(messages) ==
    IF messages = <<>> THEN [current_message |-> <<>>, history |-> <<>>]
    ELSE [current_message |-> messages[Len(messages)].content,
          history |-> messages]

extract_current_message_and_history(messages) ==
    IF messages = <<>> THEN [current_message |-> <<>>, history |-> <<>>]
    ELSE [current_message |-> messages[Len(messages)].content,
          history |-> SubSeq(messages, 1, Len(messages) - 1)]

(***************************************************************************)
(* The History Extractor of shoggoth_utils.py, on message dictionaries.    *)
(***************************************************************************)
\* the loop of lines 126-130, from index i down: where it breaks (0: it ran
\* to its end)
RECURSIVE LastUserIndex(_, _)
LastUserIndex(messages, i) ==
    IF i = 0 THEN 0
    ELSE IF messages[i].role = "user" THEN i
    ELSE LastUserIndex(messages, i - 1)

RECURSIVE FirstUserIndex(_, _)
FirstUserIndex(messages, i) ==
    IF i > Len(messages) THEN 0
    ELSE IF messages[i].role = "user" THEN i
    ELSE FirstUserIndex(messages, i + 1)

\* as a scan from the front: the first user message is taken
extract_current_message_and_history_from_messages_first(messages) ==
    IF messages = <<>> THEN [current_message |-> <<>>, history |-> <<>>]
    ELSE LET i == FirstUserIndex(messages, 1) IN
         IF i = 0 THEN [current_message |-> <<>>, history |-> messages]
         ELSE [current_message |-> messages[i].content,
               history |-> SubSeq(messages, 1, i - 1)]

\* as a slice that is off by one: the user message found stays in the
\* history
extract_current_message_and_history_from_messages_inclusive(messages) ==
    IF messages = <<>> THEN [current_message |-> <<>>, history |-> <<>>]
    ELSE LET i == LastUserIndex(messages, Len(messages)) IN
         IF i = 0 THEN [current_message |-> <<>>, history |-> messages]
         ELSE [current_message |-> messages[i].content,
               history |-> SubSeq(messages, 1, i)]

\* current_message is None (here <<>>) or a text (here <<text>>) until
\* line 132
extract_current_message_and_history_from_messages(messages) ==
    IF messages = <<>> THEN [current_message |-> <<>>, history |-> <<>>]
    ELSE LET i == LastUserIndex(messages, Len(messages))
             current_message == IF i = 0 THEN <<>> ELSE <<messages[i].content>>
         IN IF current_message = <<>>
            THEN [current_message |-> <<>>, history |-> messages]
            ELSE [current_message |-> current_message[1],
                  history |-> SubSeq(messages, 1, i - 1)]

\* {"role": msg.role, "content": msg.content}
MessageDict(msg) == [role |-> msg.role, content |-> msg.content]
MessageDicts(msgs) == [i \in 1..Len(msgs) |-> MessageDict(msgs[i])]

\* a body of the shape test_stream2.py sends, and one without messages
RawBodies ==
    { [model |-> "hello",
       messages |-> <<[role |-> "system", content |-> Hi],
                      [role |-> "user", content |-> hi]>>,
       stream |-> TRUE, max_tokens |-> 1000],
      [model |-> "hello"] }

(***************************************************************************)
(* Upstream chunks                                                         *)
(***************************************************************************)
\* data: {"choices":[{"delta":{"content":"Hi"}}]}\n
ChunkHi ==
    <<100, 97, 116, 97, 58, 32, 123, 34, 99, 104, 111, 105, 99, 101, 115, 34,
      58, 91, 123, 34, 100, 101, 108, 116, 97, 34, 58, 123, 34, 99, 111, 110,
      116, 101, 110, 116, 34, 58, 34, 72, 105, 34, 125, 125, 93, 125, 10>>

\* data: [DONE]\n
ChunkDone == <<100, 97, 116, 97, 58, 32, 91, 68, 79, 78, 69, 93, 10>>

\* a chunk that is not valid UTF-8: 'H', 0xFF, and a lead byte cut off by
\* the chunk boundary
ChunkUndecodable == <<72, 255, 195>>

Chunks == {ChunkHi, ChunkDone, ChunkUndecodable}

(***************************************************************************)
(* State                                                                   *)
(***************************************************************************)
VARIABLES
    phase,             \* "boot" before on_startup has run, then "serving"
    redis,             \* run.redis: "None" or "client"
    kv,                \* value under EXAMPLE_STORAGE_KEY + ":conversations"
    heap,              \* the deque objects that exist, by identity
    utils_ce,          \* the deque shoggoth_utils.conversation_examples names
    pc,                \* where each request's handler stands
    req,               \* the handler's locals, per request
    upstream,          \* per request: status, chunks emitted, end of stream
    caller,            \* per request: status and chunks the caller has seen
    log,               \* the JSONL audit log, split by the request that
                       \* wrote the record (the order between the records
                       \* of different requests is not kept)
    appended,          \* per request: the example its handler appended
    held,              \* every content the deque named by shoggoth_utils
                       \* held at a step of on_startup or of a handler
    input,             \* the run of examples handed to
                       \* add_conversation_example, by name
    pos,               \* how many of them have been added
    previous,          \* the content of the store of the process that ran
                       \* before this one, as it was when that process
                       \* exited: none, or one content
    arg,               \* the message list a History Extractor is called on
    result             \* what it returned: none, or one result

\* run.py binds the name conversation_examples once, at import, to the deque
\* that shoggoth_utils created at import; the binding is never changed.
run_ce == 1

vars == <<phase, redis, kv, heap, utils_ce, pc, req, upstream, caller, log,
          appended, held, input, pos, previous, arg, result>>

storeVars == <<phase, redis, kv, heap, utils_ce, held>>
requestVars == <<pc, req, upstream, caller, log, appended>>
inputVars == <<input, pos, previous, arg, result>>

NoLocals ==
    [raw_body |-> [model |-> "hello"], current_message |-> <<>>,
     message_history |-> <<>>, full_response |-> <<>>,
     shaggoth_response |-> <<>>, processing_error |-> <<>>,
     examples_data |-> NoValue, raised |-> FALSE, saved |-> "no",
     steps |-> {}]

NoUpstream == [status |-> 0, emitted |-> <<>>, ended |-> "none"]
NoCaller == [status |-> 0, chunks |-> <<>>]

\* What the service may hold when the process starts.
Dict1 == [messages |-> <<[role |-> "user", content |-> hi]>>, response |-> Hi]
InitialValues == { NoValue, json_dumps(<<Dict1>>) }

InitCommon ==
    /\ phase = "boot"
    /\ redis = "None"
    /\ heap = << <<>> >>
    /\ utils_ce = 1
    /\ pc = [r \in Requests |-> "idle"]
    /\ req = [r \in Requests |-> NoLocals]
    /\ upstream = [r \in Requests |-> NoUpstream]
    /\ caller = [r \in Requests |-> NoCaller]
    /\ log = [r \in Requests |-> <<>>]
    /\ appended = [r \in Requests |-> <<>>]
    /\ held = { <<>> }
    /\ previous = <<>>
    /\ result = <<>>

Init ==
    /\ InitCommon
    /\ kv \in InitialValues
    /\ input = "distinct"
    /\ pos = 0
    /\ arg = <<>>

(***************************************************************************)
(* on_startup                                                              *)
(***************************************************************************)
StartupOutcomes == {"from_url_raises", "ping_raises", "get_raises", "loaded"}

Startup(outcome) ==
    /\ phase = "boot"
    /\ phase' = "serving"
    /\ redis' = IF outcome = "from_url_raises" THEN "None" ELSE "client"
    /\ LET res == load_redis_conversation_examples(kv) IN
       IF outcome = "loaded" /\ res.rebind
       THEN /\ heap' = Append(heap, res.deque)
            /\ utils_ce' = Len(heap) + 1
            /\ held' = held \cup {res.deque}
       ELSE UNCHANGED <<heap, utils_ce, held>>
    /\ UNCHANGED <<kv, requestVars, inputVars>>

on_startup == \E outcome \in StartupOutcomes : Startup(outcome)

(***************************************************************************)
(* The audit log (write_jsonl_line, log_comprehensive_data)                *)
(***************************************************************************)
LogRecord(type, data) == [type |-> type, data |-> data]

\* log_comprehensive_data(chat_request, full_response, current_message,
\*                        message_history, shaggoth_response, error)
\* optional values are sequences of length 0 (None) or 1
ComprehensiveLog(chat_request, full_response, current_message, message_history, shaggoth_response, error, store) ==
    [type |-> "comprehensive_log",
     request_data |-> [model |-> chat_request.model,
                       messages |-> MessageDicts(chat_request.messages),
                       stream |-> chat_request.stream,
                       max_tokens |-> chat_request.max_tokens],
     extracted_data |-> [current_message |-> current_message,
                         message_history |-> MessageDicts(message_history)],
     upstream_response |-> full_response,
     processing_results |->
        [shaggoth_response |->
            IF shaggoth_response # <<>> /\ shaggoth_response[1] # <<>>
            THEN shaggoth_response ELSE <<>>,
         error |-> error,
         stored_examples_count |-> Len(store)]]

(***************************************************************************)
(* generate_chatbot_response: the collaborator's text, or, when anything   *)
(* inside raises, the text "Error generating response: ..." (the function  *)
(* catches the exception itself and returns).                              *)
(***************************************************************************)
generate_chatbot_response(failed) ==
    IF failed THEN ErrorGeneratingResponse \o <<120>> ELSE Hi

\* as a step without its try/except: its failure leaves the handler
StepContinues_propagates(failed) == ~failed

\* The try/except around each bookkeeping step: an exception of the step is
\* caught, so the statements after the step run whether it failed or not.
StepContinues(failed) == TRUE

(***************************************************************************)
(* proxy_chat_completions, lines 153-191: up to the await of client.send   *)
(***************************************************************************)
\* as a handler that goes on after the validation error
AfterValidationError_goesOn == "sending"

\* line 160 raises out of the handler: no statement after it runs
AfterValidationError == "rejected"

\* as a handler that writes no 'request' record
write_request_record_skipped(l, raw_body) == l

\* lines 166-170: write_jsonl_line({"type": "request", "data": raw_body})
write_request_record(l, raw_body) == Append(l, LogRecord("request", raw_body))

Receive(r, raw_body) ==
    /\ phase = "serving"
    /\ pc[r] = "idle"
    /\ \A q \in Requests : q < r => pc[q] # "idle"
    /\ IF ValidationRaises(raw_body)
       THEN /\ pc' = [pc EXCEPT ![r] = AfterValidationError]
            /\ req' = [req EXCEPT ![r].raw_body = raw_body]
            /\ caller' = [caller EXCEPT ![r].status = 500]
            /\ UNCHANGED log
       ELSE LET chat_request == ChatCompletionRequest(raw_body)
                ex == extract_current_message_and_history(chat_request.messages)
            IN /\ pc' = [pc EXCEPT ![r] = "sending"]
               /\ req' = [req EXCEPT ![r].raw_body = raw_body,
                                     ![r].current_message = ex.current_message,
                                     ![r].message_history = ex.history]
               /\ log' = [log EXCEPT ![r] = write_request_record(@, raw_body)]
               /\ UNCHANGED caller
    /\ UNCHANGED <<storeVars, upstream, appended, inputVars>>

(***************************************************************************)
(* The finally block, lines 222-273.  It runs when the try block is left:  *)
(* by the return of the StreamingResponse, or by the HTTPException of the  *)
(* except block.  log0 and perr are the log and processing_error as the    *)
(* try/except left them.  The block is suspended once, at the await of     *)
(* redis_client.set inside save_redis_conversation_examples.               *)
(***************************************************************************)
AfterFinally(r, raised) == IF raised THEN "error500" ELSE "streaming"
StatusAfterFinally(raised) == IF raised THEN 500 ELSE 200

\* as a finally block without lines 224-225
EnsureResponseContent_skipped(full_response) == full_response

\* lines 224-225: "Ensure we have some response content"
EnsureResponseContent(full_response) ==
    IF StripIsEmpty(full_response) THEN NoResponseFromUpstream ELSE full_response

FinallyBlock(r, raised, log0, perr, collab_failed) ==
    LET chat_request == ChatCompletionRequest(req[r].raw_body)
        full_response == EnsureResponseContent(req[r].full_response)
        log1 == Append(log0, LogRecord("response", full_response))
        conversation_example ==
            ConversationExample(MessageDicts(chat_request.messages),
                                full_response)
        heap1 == [heap EXCEPT ![run_ce] = DequeAppend(@, conversation_example)]
        shaggoth_response == <<generate_chatbot_response(collab_failed)>>
        locals == [req[r] EXCEPT !.full_response = full_response,
                                 !.shaggoth_response = shaggoth_response,
                                 !.processing_error = perr,
                                 !.raised = raised]
    IN /\ heap' = heap1
       /\ held' = held \cup {heap1[utils_ce]}
       /\ appended' = [appended EXCEPT ![r] = <<conversation_example>>]
       /\ IF redis # "None" /\ StepContinues(collab_failed)
          THEN \* suspended in save_redis_conversation_examples
               /\ pc' = [pc EXCEPT ![r] = "saving"]
               /\ req' = [req EXCEPT ![r] =
                    [locals EXCEPT !.examples_data =
                                       json_dumps(ExamplesData(heap1[utils_ce])),
                                   !.steps = {"response", "append", "collaborator"}]]
               /\ log' = [log EXCEPT ![r] = log1]
               /\ UNCHANGED caller
          ELSE IF StepContinues(collab_failed)
          THEN /\ pc' = [pc EXCEPT ![r] = AfterFinally(r, raised)]
               /\ req' = [req EXCEPT ![r] =
                    [locals EXCEPT !.steps = {"response", "append", "collaborator",
                                              "comprehensive_log"}]]
               /\ log' = [log EXCEPT ![r] = Append(log1,
                    ComprehensiveLog(chat_request, full_response,
                        req[r].current_message, req[r].message_history,
                        shaggoth_response, perr, heap1[run_ce]))]
               /\ caller' = [caller EXCEPT ![r].status = StatusAfterFinally(raised)]
          ELSE /\ pc' = [pc EXCEPT ![r] = "error500"]
               /\ req' = [req EXCEPT ![r] =
                    [locals EXCEPT !.steps = {"response", "append", "collaborator"}]]
               /\ log' = [log EXCEPT ![r] = log1]
               /\ caller' = [caller EXCEPT ![r].status = 500]

\* client.send raises (connection failure, timeout): the except block of
\* lines 203-220, then the finally block
SendErrors == {"ConnectError", "ConnectTimeout"}

SendRaises(r, e, collab_failed) ==
    /\ pc[r] = "sending"
    /\ LET chat_request == ChatCompletionRequest(req[r].raw_body)
           log0 == Append(Append(log[r], LogRecord("error", e)),
                     ComprehensiveLog(chat_request,
                        IF req[r].full_response # <<>> THEN req[r].full_response
                        ELSE ErrorNoResponseReceived,
                        req[r].current_message, req[r].message_history,
                        <<>>, <<e>>, heap[run_ce]))
       IN FinallyBlock(r, TRUE, log0, <<e>>, collab_failed)
    /\ upstream' = [upstream EXCEPT ![r].ended = "failed"]
    /\ UNCHANGED <<phase, redis, kv, utils_ce, inputVars>>

\* client.send returns the upstream's response, whatever its status: the
\* StreamingResponse is built and returned, so the finally block runs
UpstreamStatuses == {200, 404}

SendReturns(r, status, collab_failed) ==
    /\ pc[r] = "sending"
    /\ FinallyBlock(r, FALSE, log[r], <<>>, collab_failed)
    /\ upstream' = [upstream EXCEPT ![r].status = status, ![r].ended = "open"]
    /\ UNCHANGED <<phase, redis, kv, utils_ce, inputVars>>

\* The await of redis_client.set returns or raises; the except of
\* save_redis_conversation_examples catches.  Then lines 265-273.
SaveCompletes(r, ok) ==
    /\ pc[r] = "saving"
    /\ kv' = IF ok THEN req[r].examples_data ELSE kv
    /\ IF StepContinues(~ok)
       THEN /\ pc' = [pc EXCEPT ![r] = AfterFinally(r, req[r].raised)]
            /\ req' = [req EXCEPT ![r].steps = @ \cup {"save", "comprehensive_log"},
                                  ![r].saved = IF ok THEN "ok" ELSE "failed"]
            /\ log' = [log EXCEPT ![r] = Append(@,
                 ComprehensiveLog(ChatCompletionRequest(req[r].raw_body),
                     req[r].full_response, req[r].current_message,
                     req[r].message_history, req[r].shaggoth_response,
                     req[r].processing_error, heap[run_ce]))]
            /\ caller' = [caller EXCEPT ![r].status = StatusAfterFinally(req[r].raised)]
       ELSE /\ pc' = [pc EXCEPT ![r] = "error500"]
            /\ req' = [req EXCEPT ![r].steps = @ \cup {"save"},
                                  ![r].saved = IF ok THEN "ok" ELSE "failed"]
            /\ caller' = [caller EXCEPT ![r].status = 500]
            /\ UNCHANGED log
    /\ UNCHANGED <<phase, redis, heap, utils_ce, held, upstream, appended, inputVars>>

(***************************************************************************)
(* generate_stream, lines 194-199, iterated by the framework once the      *)
(* StreamingResponse has been returned.  upstream[r].emitted are the       *)
(* chunks aiter_bytes has produced so far; MaxChunks bounds their number   *)
(* over all requests.                                                      *)
(***************************************************************************)
ChunksEmitted == [r \in Requests |-> Len(upstream[r].emitted)]

RECURSIVE SumTo(_, _)
SumTo(f, n) == IF n = 0 THEN 0 ELSE f[n] + SumTo(f, n - 1)

\* as a strict decode: the chunk that does not decode is not passed on
generate_stream_step_strict(chunk, full_response) ==
    IF ReplacementChar \in {decode(chunk)[i] : i \in 1..Len(decode(chunk))}
    THEN [yield |-> <<>>, full_response |-> full_response]
    ELSE [yield |-> <<chunk>>, full_response |-> full_response \o decode(chunk)]

\* one turn of the loop: what is yielded to the caller, the new accumulator
generate_stream_step(chunk, full_response) ==
    [yield |-> <<chunk>>, full_response |-> full_response \o decode(chunk)]

RelayChunk(r, chunk) ==
    /\ pc[r] = "streaming"
    /\ SumTo(ChunksEmitted, MaxRequests) < MaxChunks
    /\ LET step == generate_stream_step(chunk, req[r].full_response)
       IN /\ upstream' = [upstream EXCEPT ![r].emitted = Append(@, chunk)]
          /\ req' = [req EXCEPT ![r].full_response = step.full_response]
          /\ caller' = [caller EXCEPT ![r].chunks = @ \o step.yield]
    /\ UNCHANGED <<storeVars, pc, log, appended, inputVars>>

\* aiter_bytes is exhausted ("eof"), or raises: read timeout, connection
\* lost ("error")
RelayEnd(r, how) ==
    /\ pc[r] = "streaming"
    /\ upstream' = [upstream EXCEPT ![r].ended = how]
    /\ pc' = [pc EXCEPT ![r] = IF how = "eof" THEN "done" ELSE "broken"]
    /\ UNCHANGED <<storeVars, req, caller, log, appended, inputVars>>

proxy_chat_completions ==
    \E r \in Requests :
        \/ \E raw_body \in RawBodies : Receive(r, raw_body)
        \/ \E e \in SendErrors, cf \in BOOLEAN : SendRaises(r, e, cf)
        \/ \E st \in UpstreamStatuses, cf \in BOOLEAN : SendReturns(r, st, cf)
        \/ \E ok \in BOOLEAN : SaveCompletes(r, ok)

generate_stream ==
    \E r \in Requests :
        \/ \E chunk \in Chunks : RelayChunk(r, chunk)
        \/ \E how \in {"eof", "error"} : RelayEnd(r, how)

Next == on_startup \/ proxy_chat_completions \/ generate_stream

Spec == Init /\ [][Next]_vars

(***************************************************************************)
(* The handler without the relay: the requests whose upstream answered     *)
(* stay at the start of their stream.                                      *)
(***************************************************************************)
NextBookkeeping == on_startup \/ proxy_chat_completions

SpecBookkeeping == Init /\ [][NextBookkeeping]_vars

(***************************************************************************)
(* The Example Store alone: the startup load and add_conversation_example, *)
(* on snapshots and runs of appends that go past the capacity.             *)
(***************************************************************************)
InputExample(i) ==
    [messages |-> <<[role |-> "user", content |-> hi]>>, response |-> <<i>>]

\* runs of appends that go past the capacity: all different, and two
\* values in turn
Inputs == {"distinct", "alternating"}
InputLen == maxlen + MaxOver
InputAt(run, i) ==
    IF run = "distinct" THEN InputExample(i) ELSE InputExample(72 + (i % 2))

BigSnapshot ==
    [i \in 1..(maxlen + MaxOver) |-> [messages |-> <<>>, response |-> <<i>>]]

StoreInitialValues ==
    { NoValue, Garbage, json_dumps(<<>>), json_dumps(<<Dict1>>),
      json_dumps(<<Dict1, [messages |-> <<>>]>>), json_dumps(BigSnapshot) }

InitStore ==
    /\ InitCommon
    /\ kv \in StoreInitialValues
    /\ input \in Inputs
    /\ pos = 0
    /\ arg = <<>>

\* add_conversation_example(messages, response), lines 138-146
add_conversation_example ==
    /\ phase = "serving"
    /\ pos < InputLen
    /\ LET conversation_example ==
               ConversationExample(InputAt(input, pos + 1).messages,
                                   InputAt(input, pos + 1).response)
       IN heap' = [heap EXCEPT ![utils_ce] = DequeAppend(@, conversation_example)]
    /\ pos' = pos + 1
    /\ UNCHANGED <<phase, redis, kv, utils_ce, held, requestVars, input, previous,
                   arg, result>>

NextStore == on_startup \/ add_conversation_example

SpecStore == InitStore /\ [][NextStore]_vars

(***************************************************************************)
(* The store saved by one process and loaded by the next.                  *)
(***************************************************************************)
\* a stored example whose texts need every kind of escape
Dict2 ==
    [messages |-> <<[role |-> "user", content |-> <<34, 92, 10, 233>>]>>,
     response |-> <<128512, 65533, 9>>]

RoundTripInitialValues == StoreInitialValues \cup { json_dumps(<<Dict2, Dict1>>) }

InitRoundTrip ==
    /\ InitCommon
    /\ kv \in RoundTripInitialValues
    /\ input \in Inputs
    /\ pos = 0
    /\ arg = <<>>

\* save_redis_conversation_examples(redis_client), lines 77-87; the process
\* does nothing else afterwards
save_redis_conversation_examples(ok) ==
    /\ phase = "serving"
    /\ redis = "client"
    /\ kv' = IF ok THEN json_dumps(ExamplesData(heap[utils_ce])) ELSE kv
    /\ phase' = IF ok THEN "saved" ELSE phase
    /\ UNCHANGED <<redis, heap, utils_ce, held, requestVars, inputVars>>

\* the process exits and a fresh one imports the modules: a new, empty
\* deque, no client yet
Restart ==
    /\ phase = "saved"
    /\ phase' = "boot"
    /\ redis' = "None"
    /\ previous' = <<heap[utils_ce]>>
    /\ heap' = << <<>> >>
    /\ utils_ce' = 1
    /\ held' = { <<>> }
    /\ UNCHANGED <<kv, requestVars, input, pos, arg, result>>

NextRoundTrip ==
    \/ on_startup
    \/ pos < MaxOver /\ add_conversation_example
    \/ \E ok \in BOOLEAN : save_redis_conversation_examples(ok)
    \/ Restart

SpecRoundTrip == InitRoundTrip /\ [][NextRoundTrip]_vars

(***************************************************************************)
(* The two History Extractors, called on every message list of at most     *)
(* MaxMessages messages.                                                   *)
(***************************************************************************)
Roles == {"system", "user", "assistant"}
Contents == { <<>>, Hi, hi }
MessageDictSet == [role : Roles, content : Contents]
MessageLists == UNION { [1..n -> MessageDictSet] : n \in 0..MaxMessages }

InitExtract ==
    /\ InitCommon
    /\ kv = NoValue
    /\ input = "distinct"
    /\ pos = 0
    /\ arg \in MessageLists

\* run.py: extract_current_message_and_history(chat_request.messages)
CallExtractLastMessage ==
    /\ result = <<>>
    /\ LET out == extract_current_message_and_history(Messages(arg))
       IN result' = <<[mode |-> "last_message",
                       current_message |-> out.current_message,
                       history |-> out.history]>>
    /\ UNCHANGED <<storeVars, requestVars, input, pos, previous, arg>>

\* shoggoth_utils.py: extract_current_message_and_history_from_messages(messages)
CallExtractLastUser ==
    /\ result = <<>>
    /\ LET out == extract_current_message_and_history_from_messages(arg)
       IN result' = <<[mode |-> "last_user",
                       current_message |-> out.current_message,
                       history |-> out.history]>>
    /\ UNCHANGED <<storeVars, requestVars, input, pos, previous, arg>>

\* both, on the same message list
CallExtractBoth ==
    /\ result = <<>>
    /\ result' = <<[mode |-> "both",
                    last_message |-> extract_current_message_and_history(Messages(arg)),
                    last_user |-> extract_current_message_and_history_from_messages(arg)]>>
    /\ UNCHANGED <<storeVars, requestVars, input, pos, previous, arg>>

NextExtract == CallExtractLastMessage \/ CallExtractLastUser \/ CallExtractBoth

SpecExtract == InitExtract /\ [][NextExtract]_vars

(***************************************************************************)
(* get_recent_conversations, called once on the store as a running service *)
(* holds it.                                                               *)
(***************************************************************************)
\* the largest limit asked for
MaxLimit == 4

\* l[start:] as Python evaluates it: a negative start counts from the end,
\* and either kind is clipped to the list
SliceFrom(l, start) ==
    LET n == Len(l)
        from == IF start < 0 THEN (IF n + start < 0 THEN 0 ELSE n + start)
                ELSE (IF start > n THEN n ELSE start)
    IN SubSeq(l, from + 1, n)

\* list(conversation_examples)[-limit:], line 107
SliceLast(l, limit) == SliceFrom(l, 0 - limit)

PreviewLen == 100
Ellipsis == <<46, 46, 46>>

\* one dictionary of the list comprehension, lines 109-113; last_message is
\* None (here <<>>) or a message (here <<message>>)
RecentSummary(ex) ==
    [message_count |-> Len(ex.messages),
     last_message |-> IF ex.messages # <<>>
                      THEN <<ex.messages[Len(ex.messages)]>> ELSE <<>>,
     response_preview |-> IF Len(ex.response) > PreviewLen
                          THEN SubSeq(ex.response, 1, PreviewLen) \o Ellipsis
                          ELSE ex.response]

get_recent_conversations(store, limit) ==
    LET recent == SliceLast(store, limit)
    IN [i \in 1..Len(recent) |-> RecentSummary(recent[i])]

\* stored examples: a response longer than the preview, one of exactly its
\* length, an example without messages
DictLong ==
    [messages |-> <<[role |-> "user", content |-> hi],
                    [role |-> "assistant", content |-> Hi]>>,
     response |-> [i \in 1..(PreviewLen + 1) |-> 97]]
DictFull ==
    [messages |-> <<[role |-> "user", content |-> Hi]>>,
     response |-> [i \in 1..PreviewLen |-> 98]]
DictNoMessages == [messages |-> <<>>, response |-> <<>>]

RecentInitialValues ==
    { NoValue, json_dumps(<<Dict1>>),
      json_dumps(<<DictLong, DictNoMessages, Dict1>>),
      json_dumps(<<DictNoMessages, DictFull>>) }

InitRecent ==
    /\ InitCommon
    /\ kv \in RecentInitialValues
    /\ input \in Inputs
    /\ pos = 0
    /\ arg = <<>>

\* get_recent_conversations(limit) reads the global of shoggoth_utils
CallGetRecent(limit) ==
    /\ phase = "serving"
    /\ result = <<>>
    /\ result' = <<[mode |-> "recent", limit |-> limit,
                    value |-> get_recent_conversations(heap[utils_ce], limit)]>>
    /\ UNCHANGED <<storeVars, requestVars, input, pos, previous, arg>>

NextRecent ==
    \/ on_startup
    \/ pos < MaxOver /\ result = <<>> /\ add_conversation_example
    \/ \E limit \in 0..MaxLimit : CallGetRecent(limit)

SpecRecent == InitRecent /\ [][NextRecent]_vars

(***************************************************************************)
(* Properties                                                              *)
(***************************************************************************)
Range(s) == {s[i] : i \in 1..Len(s)}
HasRecord(l, type) == \E i \in 1..Len(l) : l[i].type = type

\* the handler of r has left its finally block
LeftFinally(r) == pc[r] \in {"streaming", "done", "broken", "error500"}

\* the upstream stream of r has been drained, or the upstream call failed
StreamOver(r) == upstream[r].ended \in {"eof", "error", "failed"}

\* the text of the chunks, decoded chunk by chunk
RECURSIVE DecodeAll(_)
DecodeAll(chunks) ==
    IF chunks = <<>> THEN <<>> ELSE decode(Head(chunks)) \o DecodeAll(Tail(chunks))

\* the JSON text of the list of the examples of d, as dictionaries
SnapshotOf(d) ==
    json_dumps([i \in 1..Len(d) |->
                   [messages |-> d[i].messages, response |-> d[i].response]])

\* C1: the 'response' record is written and the example is appended only once
\* the request's upstream stream has been drained or has failed.
C1_BookkeepingAfterStream ==
    \A r \in Requests :
        (HasRecord(log[r], "response") \/ appended[r] # <<>>) => StreamOver(r)

\* C2: when the stream of a request ends without fault after a non-empty
\* body, the example appended for it holds the text of its upstream chunks as
\* response and the caller's message list as messages.
C2_ExampleHoldsUpstreamOutput ==
    \A r \in Requests :
        (pc[r] = "done" /\ DecodeAll(upstream[r].emitted) # <<>>) =>
            /\ appended[r] # <<>>
            /\ appended[r][1].response = DecodeAll(upstream[r].emitted)
            /\ appended[r][1].messages = req[r].raw_body.messages

\* C3: the chunks delivered to the caller are the chunks the upstream
\* emitted: same order, same bytes, none dropped, duplicated or altered,
\* the chunks that do not decode included.
C3_RelayLossless ==
    \A r \in Requests : caller[r].chunks = upstream[r].emitted

C3_Witness ==
    \E r \in Requests :
        /\ pc[r] = "done"
        /\ caller[r].chunks = <<ChunkUndecodable, ChunkHi>>

\* C4: when the bookkeeping of the only request so far has completed and its
\* save reached the service, the value under the key is the serialisation of
\* the whole store, the example just appended included.
C4_SavedSnapshotIsWholeStore ==
    \A r \in Requests :
        ( /\ LeftFinally(r)
          /\ req[r].saved = "ok"
          /\ \A q \in Requests \ {r} : pc[q] = "idle" ) =>
            /\ kv = SnapshotOf(heap[run_ce])
            /\ \E i \in 1..Len(json_loads(kv)) :
                  /\ json_loads(kv)[i].messages = appended[r][1].messages
                  /\ json_loads(kv)[i].response = appended[r][1].response

\* C5: no deque ever holds more than 1000 examples, whatever was loaded and
\* however many were appended.
C5_StoreWithinCapacity ==
    \A i \in DOMAIN heap : Len(heap[i]) <= 1000

C5_Witness ==
    /\ kv.kind = "json"
    /\ Len(kv.value) = maxlen + MaxOver
    /\ utils_ce = 2
    /\ Len(heap[utils_ce]) = 1000
    /\ pos > 0

\* C6: after n appends to a store that started empty, the store holds the
\* last min(n, 1000) appended examples in the order they were appended.
C6_StoreIsLastAppended ==
    utils_ce = 1 =>
        /\ Len(heap[1]) = IF pos <= 1000 THEN pos ELSE 1000
        /\ \A i \in 1..Len(heap[1]) :
             /\ heap[1][i].messages = InputAt(input, pos - Len(heap[1]) + i).messages
             /\ heap[1][i].response = InputAt(input, pos - Len(heap[1]) + i).response

C6_Witness ==
    /\ utils_ce = 1
    /\ input = "distinct"
    /\ pos > 1001
    /\ heap[1][1].response = <<pos - 999>>
    /\ heap[1][1000].response = <<pos>>

\* C7: the store the handlers append to holds the example of every request
\* that has appended, however the steps of two requests in flight interleave
\* and whichever completes first.
C7_NoLostAppend ==
    LET done == {r \in Requests : appended[r] # <<>>} IN
        /\ Len(heap[run_ce]) = Cardinality(done)
        /\ \A r \in done : appended[r][1] \in Range(heap[run_ce])

\* request 2 came second and completed first, with request 1 still in flight
C7_Witness ==
    /\ pc[1] = "saving"
    /\ LeftFinally(2)
    /\ Len(heap[run_ce]) = 2

\* C8: what a save reads is the content of the store it reads at that one
\* instant, and what it then sets in the service is that snapshot, a content
\* the store held, whatever other requests appended in between.
C8_SnapshotIsAtomic ==
    [][ /\ \A r \in Requests :
             (pc[r] # "saving" /\ pc'[r] = "saving") =>
                 req'[r].examples_data = SnapshotOf(heap'[utils_ce'])
        /\ kv' # kv =>
             \E r \in Requests :
                 /\ pc[r] = "saving"
                 /\ kv' = req[r].examples_data
                 /\ \E c \in held : kv' = SnapshotOf(c) ]_vars

\* a save set a snapshot that was read before another request appended
C8_Witness ==
    \E r \in Requests :
        /\ req[r].saved = "ok"
        /\ kv = req[r].examples_data
        /\ utils_ce = run_ce
        /\ Len(kv.value) = 1
        /\ Len(heap[utils_ce]) = 2

\* C9: every validated request, whether the upstream call returned or raised
\* and whether the collaborator or the save failed, gets its 'response'
\* record, its append, its save (when there is a client) and its
\* consolidated record.
C9_BookkeepingUnconditional ==
    \A r \in Requests :
        (pc[r] \in {"streaming", "done", "broken", "error500"}) =>
            /\ HasRecord(log[r], "response")
            /\ appended[r] # <<>>
            /\ appended[r][1] \in Range(heap[run_ce])
            /\ redis # "None" => req[r].saved # "no"
            /\ "comprehensive_log" \in req[r].steps
            /\ log[r][Len(log[r])].type = "comprehensive_log"

\* the upstream call timed out, the collaborator and the save failed
C9_Witness ==
    \E r \in Requests :
        /\ pc[r] = "error500"
        /\ req[r].processing_error = <<"ConnectTimeout">>
        /\ req[r].shaggoth_response = <<generate_chatbot_response(TRUE)>>
        /\ req[r].saved = "failed"
        /\ log[r][Len(log[r])].type = "comprehensive_log"

\* C10: when the upstream call fails (connection failure, timeout, non-2xx
\* status) the caller gets a 5xx status, not a streamed 200.
UpstreamFailed(r) ==
    \/ upstream[r].ended \in {"failed", "error"}
    \/ upstream[r].status # 0 /\ ~(upstream[r].status \in 200..299)

C10_UpstreamFailureGives5xx ==
    \A r \in Requests :
        (UpstreamFailed(r) /\ caller[r].status # 0) => caller[r].status >= 500

\* C11: no example a handler appended has an empty response; when the upstream
\* call failed, or the stream ended without fault and the text of its chunks
\* is empty, the response of the example is the sentinel.
C11_NoEmptyResponse ==
    \A r \in Requests :
        appended[r] # <<>> =>
            /\ appended[r][1].response # <<>>
            /\ ( \/ upstream[r].ended = "failed"
                 \/ pc[r] = "done" /\ DecodeAll(upstream[r].emitted) = <<>> ) =>
                   appended[r][1].response = NoResponseFromUpstream

\* one upstream call failed, the other stream ended with nothing in it
C11_Witness ==
    /\ upstream[1].ended = "failed"
    /\ appended[1] # <<>>
    /\ appended[1][1].response = NoResponseFromUpstream
    /\ pc[2] = "done"
    /\ upstream[2].emitted = <<>>
    /\ appended[2] # <<>>
    /\ appended[2][1].response = NoResponseFromUpstream

\* C12: when a process saved its store of at most 1000 examples and a fresh
\* process then loads from the same key, with no write in between, the store
\* of the fresh process holds the same examples (same messages, same
\* response) in the same order; the empty store included.
C12_SaveLoadRoundTrip ==
    [][ (previous # <<>> /\ Len(previous[1]) <= 1000 /\ Startup("loaded")) =>
            heap'[utils_ce'] = previous[1] ]_vars

\* a full store whose texts need escapes came back as it was
C12_Witness ==
    /\ previous # <<>>
    /\ phase = "serving"
    /\ utils_ce = 2
    /\ Len(previous[1]) = 1000
    /\ previous[1][1000].response = <<2>>
    /\ heap[utils_ce] = previous[1]

\* C13: the stream is handed to the caller without waiting for the
\* collaborator or the save: while the save of a request whose upstream has
\* answered is still pending, the caller already has its response, so no
\* chunk waits for the collaborator or the save to complete.
C13_StreamNotBlockedOnBookkeeping ==
    \A r \in Requests :
        (pc[r] = "saving" /\ ~req[r].raised) =>
            /\ "collaborator" \in req[r].steps
            /\ caller[r].status = 200

\* C14: a body that fails validation is rejected before any upstream call:
\* its handler never reaches the send, and nothing is sent upstream for it.
C14_MalformedNeverSent ==
    \A r \in Requests :
        (pc[r] # "idle" /\ ValidationRaises(req[r].raw_body)) =>
            /\ pc[r] = "rejected"
            /\ upstream[r] = NoUpstream
            /\ caller[r].chunks = <<>>

\* one body was rejected, the next was sent upstream
C14_Witness ==
    /\ pc[1] = "rejected"
    /\ caller[1].status = 500
    /\ upstream[1] = NoUpstream
    /\ upstream[2].status = 200

\* C15: the first record a validated request writes is its 'request' record
\* with the raw inbound body; it is in the log before the upstream call is
\* made and stays there when that call fails.
C15_RequestLoggedFirst ==
    \A r \in Requests :
        pc[r] \notin {"idle", "rejected"} =>
            /\ Len(log[r]) >= 1
            /\ log[r][1].type = "request"
            /\ log[r][1].data = req[r].raw_body
            /\ pc[r] = "sending" => (Len(log[r]) = 1 /\ upstream[r] = NoUpstream)

\* the upstream call of a request failed, the next is about to be sent
C15_Witness ==
    /\ upstream[1].ended = "failed"
    /\ log[1][1] = LogRecord("request", req[1].raw_body)
    /\ HasRecord(log[1], "error")
    /\ pc[2] = "sending"
    /\ log[2] = <<LogRecord("request", req[2].raw_body)>>

\* C16: a failure of the collaborator does not reach the caller: the handler
\* goes on to its consolidated record, and the status and the chunks the
\* caller gets are those the upstream outcome alone decides.
CollaboratorFailed(r) ==
    req[r].shaggoth_response = <<generate_chatbot_response(TRUE)>>

C16_CollaboratorFailureContained ==
    \A r \in Requests :
        CollaboratorFailed(r) =>
            /\ pc[r] \in {"saving", "streaming", "done", "broken", "error500"}
            /\ pc[r] = "error500" => upstream[r].ended = "failed"
            /\ pc[r] # "saving" =>
                  /\ log[r][Len(log[r])].type = "comprehensive_log"
                  /\ caller[r].status =
                        IF upstream[r].ended = "failed" THEN 500 ELSE 200
            /\ caller[r].chunks = upstream[r].emitted

\* the collaborator failed and the caller got the stream to its end
C16_Witness ==
    \E r \in Requests :
        /\ CollaboratorFailed(r)
        /\ pc[r] = "done"
        /\ caller[r].status = 200
        /\ caller[r].chunks = <<ChunkHi, ChunkDone>>

\* C17: when the load at startup fails (no client, ping or get raising, a
\* text that is not JSON, a list with an entry that lacks a key), the store
\* is empty afterwards, nothing of the payload is in it, the process is
\* serving, and an append then adds its example at the tail of the store.
PayloadMalformed(raw) ==
    /\ raw.kind # "nil"
    /\ \/ json_loads_raises(raw)
       \/ \E i \in 1..Len(raw.value) : from_dict_raises(raw.value[i])

C17_FailedLoadLeavesEmptyStore ==
    [][ /\ \A outcome \in StartupOutcomes :
             (Startup(outcome) /\ (outcome # "loaded" \/ PayloadMalformed(kv))) =>
                 /\ phase' = "serving"
                 /\ utils_ce' = run_ce
                 /\ heap'[utils_ce'] = <<>>
        /\ (phase = "serving" /\ utils_ce = run_ce /\ pos' = pos + 1) =>
             /\ Len(heap'[utils_ce']) >= 1
             /\ heap'[utils_ce'][Len(heap'[utils_ce'])].messages
                    = InputAt(input, pos').messages
             /\ heap'[utils_ce'][Len(heap'[utils_ce'])].response
                    = InputAt(input, pos').response ]_vars

\* the payload had a good entry and a bad one; an example was then appended
C17_Witness ==
    /\ kv.kind = "json"
    /\ Len(kv.value) = 2
    /\ PayloadMalformed(kv)
    /\ phase = "serving"
    /\ redis = "client"
    /\ pos = 1
    /\ Len(heap[utils_ce]) = 1
    /\ heap[utils_ce][1].response = InputAt(input, 1).response

\* C18: when the save of a request fails, nothing is raised into the
\* handler: the step leaves every deque and the stored value as they were,
\* the handler writes its consolidated record, the caller gets the status
\* the upstream outcome decides, and the store the handler appended to
\* still holds the request's example.
C18_FailedSaveContained ==
    [][ \A r \in Requests :
          (pc[r] = "saving" /\ req'[r].saved = "failed") =>
              /\ heap' = heap
              /\ utils_ce' = utils_ce
              /\ kv' = kv
              /\ Len(log'[r]) = Len(log[r]) + 1
              /\ log'[r][Len(log'[r])].type = "comprehensive_log"
              /\ pc'[r] = IF upstream[r].ended = "failed"
                          THEN "error500" ELSE "streaming"
              /\ caller'[r].status =
                    IF upstream[r].ended = "failed" THEN 500 ELSE 200
              /\ req'[r].processing_error = req[r].processing_error
              /\ appended[r][1] \in Range(heap'[run_ce]) ]_vars

\* the save failed and the request went on to stream
C18_Witness ==
    \E r \in Requests :
        /\ req[r].saved = "failed"
        /\ pc[r] = "streaming"
        /\ caller[r].status = 200
        /\ log[r][Len(log[r])].type = "comprehensive_log"
        /\ appended[r][1] \in Range(heap[run_ce])
        /\ kv = NoValue

\* C19: the last-message extraction returns the content of the last message
\* as current and the messages before it, in order, as history; on the empty
\* list it returns the empty text and the empty list.
C19_LastMessageExtraction ==
    (result # <<>> /\ result[1].mode = "last_message") =>
        IF arg = <<>>
        THEN result[1].current_message = <<>> /\ result[1].history = <<>>
        ELSE /\ result[1].current_message = arg[Len(arg)].content
             /\ Len(result[1].history) = Len(arg) - 1
             /\ \A i \in 1..(Len(arg) - 1) :
                  /\ result[1].history[i].role = arg[i].role
                  /\ result[1].history[i].content = arg[i].content

\* the last message is the assistant's, after two of the user
C19_Witness ==
    /\ result # <<>>
    /\ result[1].mode = "last_message"
    /\ Len(arg) = 3
    /\ arg[1].role = "user" /\ arg[2].role = "user" /\ arg[3].role = "assistant"
    /\ arg[2].content = hi /\ arg[3].content = Hi
    /\ result[1].current_message = Hi
    /\ Len(result[1].history) = 2

\* C20: the last-user extraction returns the content of the last message of
\* role user as current and exactly the messages before that message, in
\* order, as history; when no message has role user (the empty list
\* included) it returns the empty text and the whole list.
UserIndices == {i \in 1..Len(arg) : arg[i].role = "user"}

C20_LastUserExtraction ==
    (result # <<>> /\ result[1].mode = "last_user") =>
        IF UserIndices = {}
        THEN result[1].current_message = <<>> /\ result[1].history = arg
        ELSE LET k == CHOOSE k \in UserIndices : \A j \in UserIndices : j <= k
             IN /\ result[1].current_message = arg[k].content
                /\ Len(result[1].history) = k - 1
                /\ \A i \in 1..(k - 1) : result[1].history[i] = arg[i]

\* two user messages, the second one empty, then a message of the assistant
C20_Witness ==
    /\ result # <<>>
    /\ result[1].mode = "last_user"
    /\ Len(arg) = 3
    /\ arg[1].role = "user" /\ arg[2].role = "user" /\ arg[3].role = "assistant"
    /\ arg[1].content = hi /\ arg[2].content = <<>>
    /\ result[1].current_message = <<>>
    /\ result[1].history = <<arg[1]>>

\* how many records of a type a log holds
CountRecords(l, type) == Cardinality({i \in 1..Len(l) : l[i].type = type})

\* C21: a validated request whose handler has finished has written exactly
\* one consolidated record, whether its upstream call returned or raised.
C21_OneConsolidatedRecord ==
    \A r \in Requests :
        LeftFinally(r) => CountRecords(log[r], "comprehensive_log") = 1

\* C22: when the upstream stream of a request was the event carrying the
\* delta "Hi" followed by the '[DONE]' event, and has ended, the text the
\* relay accumulated is "Hi": no event framing, no terminal marker.
C22_AccumulatedTextIsDeltaContent ==
    \A r \in Requests :
        (pc[r] = "done" /\ upstream[r].emitted = <<ChunkHi, ChunkDone>>) =>
            req[r].full_response = Hi

\* C23: there is one Example Store: the deque the handlers append to and
\* count is the deque the load filled and the save and the diagnostics
\* read, with the same contents, at every moment.
C23_SingleStore ==
    /\ utils_ce = run_ce
    /\ heap[run_ce] = heap[utils_ce]

\* C24: once the relay has forwarded the chunk with the '[DONE]' marker it
\* is over: that chunk is the last one the caller gets and the last one
\* added to the accumulated text, whatever the upstream emits afterwards.
C24_DoneMarkerTerminates ==
    [][ \A r \in Requests :
          ChunkDone \in Range(caller[r].chunks) =>
              /\ caller'[r].chunks = caller[r].chunks
              /\ req'[r].full_response = req[r].full_response ]_vars

\* C25: when a step of a request failed (the relay, the collaborator, the
\* save), the last consolidated record of the request carries an error
\* entry, and a collaborator failure is not logged as the collaborator's
\* output.
StepFailed(r) ==
    \/ pc[r] = "broken"
    \/ CollaboratorFailed(r)
    \/ req[r].saved = "failed"

C25_FailureIsLogged ==
    \A r \in Requests :
        (LeftFinally(r) /\ StepFailed(r)) =>
            LET rec == log[r][Len(log[r])] IN
                /\ rec.type = "comprehensive_log"
                /\ rec.processing_results.error # <<>>
                /\ CollaboratorFailed(r) =>
                      rec.processing_results.shaggoth_response = <<>>

\* C26: within a request the 'response' record, every consolidated record
\* and the stored example carry the same response text; with no upstream
\* text that is one and the same sentinel.
ResponseTexts(r) ==
    {log[r][i].data : i \in {j \in 1..Len(log[r]) : log[r][j].type = "response"}}
    \cup {log[r][i].upstream_response :
              i \in {j \in 1..Len(log[r]) : log[r][j].type = "comprehensive_log"}}
    \cup {appended[r][i].response : i \in 1..Len(appended[r])}

C26_OneResponseText ==
    \A r \in Requests : Cardinality(ResponseTexts(r)) <= 1

\* C27: a step of a serving process (an append, a save) leaves every
\* example already in a store as it was and in the same order; an example
\* leaves only from the head, when an append finds the store at capacity.
\* new is old, or old with one example added at the tail, less its head if
\* old was full
KeptInOrder(old, new) ==
    \/ new = old
    \/ /\ Len(old) < maxlen
       /\ Len(new) = Len(old) + 1
       /\ SubSeq(new, 1, Len(old)) = old
    \/ /\ Len(old) = maxlen
       /\ Len(new) = maxlen
       /\ SubSeq(new, 1, maxlen - 1) = Tail(old)

C27_AppendAndSaveKeepExamples ==
    [][ phase = "serving" =>
          /\ utils_ce' = utils_ce
          /\ DOMAIN heap' = DOMAIN heap
          /\ \A d \in DOMAIN heap : KeptInOrder(heap[d], heap'[d])
          /\ kv' # kv => heap' = heap
          /\ pos' = pos + 1 =>
                heap'[utils_ce][Len(heap'[utils_ce])].response
                    = InputAt(input, pos').response ]_vars

\* a full store was loaded, two appends evicted two from its head, and the
\* store was saved
C27_Witness ==
    /\ phase = "saved"
    /\ input = "distinct"
    /\ pos = 2
    /\ Len(heap[utils_ce]) = 1000
    /\ heap[utils_ce][1].response = <<5>>
    /\ heap[utils_ce][999].response = <<1>>
    /\ heap[utils_ce][1000].response = <<2>>
    /\ kv = SnapshotOf(heap[utils_ce])

\* C28: every validated request appends exactly one example, whether its
\* upstream call returned or raised, and a rejected request appends none:
\* when no handler is in flight, the store the handlers append to holds as
\* many examples as validated requests have finished.
Finished == {r \in Requests : LeftFinally(r)}

C28_OneExamplePerRequest ==
    /\ \A r \in Requests :
          /\ LeftFinally(r) => Len(appended[r]) = 1
          /\ pc[r] \in {"idle", "rejected"} => appended[r] = <<>>
    /\ (\A r \in Requests : pc[r] \in {"idle", "rejected"} \/ LeftFinally(r)) =>
          /\ Len(heap[run_ce]) = Cardinality(Finished)
          /\ \A r \in Finished : appended[r][1] \in Range(heap[run_ce])

\* one request failed upstream, the other was answered: two examples
C28_Witness ==
    /\ pc[1] = "error500"
    /\ upstream[1].ended = "failed"
    /\ pc[2] = "streaming"
    /\ Len(heap[run_ce]) = 2

\* C29: on a message list that ends with a user message the two extraction
\* modes return the same current text and the same history; and on every
\* message list the history either mode returns is a prefix of the list.
IsPrefix(p, l) == Len(p) <= Len(l) /\ \A i \in 1..Len(p) : p[i] = l[i]

C29_ModesAgreeOnLastUser ==
    (result # <<>> /\ result[1].mode = "both") =>
        LET a == result[1].last_message
            b == result[1].last_user
        IN /\ (arg # <<>> /\ arg[Len(arg)].role = "user") =>
                 /\ a.current_message = b.current_message
                 /\ MessageDicts(a.history) = b.history
           /\ IsPrefix(MessageDicts(a.history), arg)
           /\ IsPrefix(b.history, arg)

\* a user message, the assistant's answer, a second user message
C29_Witness ==
    /\ result # <<>>
    /\ result[1].mode = "both"
    /\ Len(arg) = 3
    /\ arg[1].role = "user" /\ arg[2].role = "assistant" /\ arg[3].role = "user"
    /\ arg[1].content = Hi /\ arg[3].content = hi
    /\ result[1].last_message.current_message = hi
    /\ result[1].last_user.current_message = hi
    /\ Len(result[1].last_user.history) = 2

\* C30: for every limit >= 0 get_recent_conversations(limit) returns the
\* summaries of exactly the last min(limit, size) examples of the store, in
\* store order; so limit 0 returns none.
C30_RecentReturnsLastLimit ==
    (result # <<>> /\ result[1].mode = "recent") =>
        LET store == heap[utils_ce]
            limit == result[1].limit
            k == IF limit < Len(store) THEN limit ELSE Len(store)
        IN /\ Len(result[1].value) = k
           /\ \A i \in 1..Len(result[1].value) :
                  Len(store) - k + i \in 1..Len(store)
                  /\ result[1].value[i] = RecentSummary(store[Len(store) - k + i])

\* limit 0 on a store of several examples returns a summary of each
C30_LimitZeroReturnsAll ==
    /\ result # <<>>
    /\ result[1].mode = "recent"
    /\ result[1].limit = 0
    /\ Len(heap[utils_ce]) >= 3
    /\ Len(result[1].value) = Len(heap[utils_ce])

====
